---- MODULE Spec2Model ----
(***************************************************************************)
(* Model of app.py, the "Miguel" automotive assistant service: the speech  *)
(* fallback chain (speak_text), the retrieval-to-response pipeline (chat,  *)
(* query_pinecone, generate_response and the templates), the lazy          *)
(* initialisation of the shared handles (init_pinecone and its callers)    *)
(* and the write path (add_knowledge).                                     *)
(*                                                                         *)
(* Texts are sequences of symbols.  A symbol stands for a run of           *)
(* characters ("motor", "Paso", " ", "\n"); Python's substring test        *)
(* `kw in s` is the contiguous-subsequence test Contains, str.lower() maps *)
(* every symbol to its lower-case form, split/strip/join work on the       *)
(* "\n" and " " symbols.                                                   *)
(***************************************************************************)
EXTENDS Integers, Sequences, FiniteSets, TLC

VARIABLES
    AWS_ACCESS_KEY,     \* module constant, TRUE iff the variable is set (line 22)
    AWS_SECRET_KEY,     \* line 23
    sp_pc,              \* position of the speak_text request
    sp_text,            \* local `text` of speak_text ("<unbound>" before line 551)
    sp_calls,           \* polly.synthesize_speech calls of the request, in order
    generative_error,   \* exception bound at line 597
    neural_error,       \* exception bound at line 624
    sp_exit,            \* which return statement / except clause answered
    sp_resp,            \* the JSON response of speak_text
    PINECONE_API_KEY,   \* module constant, TRUE iff the variable is set (line 27)
    index,              \* global `index`
    model,              \* global `model`
    remote_index,       \* TRUE iff INDEX_NAME is in pinecone.list_indexes()
    index_creations,    \* successful pinecone.create_index calls
    index_bindings,     \* executions of line 53
    model_loads,        \* successful executions of line 56
    init_calls,         \* invocations of init_pinecone
    ip_pc,              \* position of each caller of init_pinecone
    ip_create,          \* each caller's outcome of the test of line 44
    ip_ret,             \* each caller's return value of init_pinecone
    ip_resp,            \* each caller's response (health_check, pinecone_status)
    ch_body,            \* the body of the chat request
    ch_calls,           \* model.encode / index.query calls of the chat request
    ch_results,         \* what query_pinecone returned to chat
    ch_exit,            \* which branch of chat answered
    ch_resp,            \* the JSON response of chat
    store,              \* records of the remote index, by identifier
    ad_body,            \* the body of the add_knowledge request
    ad_calls,           \* model.encode / index.upsert calls of the request
    ad_resp,            \* the JSON response of add_knowledge
    ex_context,         \* the argument of a call of extract_technical_info
    ex_info,            \* the value the call returned
    ex_pc,              \* "idle", "call" or "return"
    sy_query,           \* the query argument of a call of generate_response
    sy_matches,         \* the matches of its context_matches argument
    sy_context,         \* the context line 158 built
    sy_info,            \* what extract_technical_info made of the context
    sy_resp,            \* the value the call returned
    sy_pc               \* "idle", "call" or "return"

speakVars == <<AWS_ACCESS_KEY, AWS_SECRET_KEY, sp_pc, sp_text, sp_calls,
               generative_error, neural_error, sp_exit, sp_resp>>

handleVars == <<PINECONE_API_KEY, index, model, remote_index, index_creations,
                index_bindings, model_loads, init_calls>>

callerVars == <<ip_pc, ip_create, ip_ret, ip_resp>>

chatVars == <<ch_body, ch_calls, ch_results, ch_exit, ch_resp>>

addVars == <<store, ad_body, ad_calls, ad_resp>>

extractVars == <<ex_context, ex_info, ex_pc>>

synthVars == <<sy_query, sy_matches, sy_context, sy_info, sy_resp, sy_pc>>

pureVars == <<extractVars, synthVars>>

vars == <<speakVars, handleVars, callerVars, chatVars, addVars, pureVars>>

Null == "null"
Unbound == "<unbound>"

\* ------------------------------------------------------------------------
\* Inputs of the speech path
\* ------------------------------------------------------------------------

\* a truthy JSON value that is not a string (e.g. {"text": 5})
NonStr == "<non-string>"

SpeakTexts == {"", "revisar motor", "nivel de aceite", NonStr}

\* request bodies: no usable JSON object (request.json raises or is null),
\* or a JSON object whose 'text' is absent (default '') or present
SpeakBodies == {[json |-> FALSE, text |-> ""]}
               \cup {[json |-> TRUE, text |-> t] : t \in SpeakTexts}

\* str(e) of the exceptions the synthesis service or the runtime may raise
ErrMsgs == {"err-a", "err-b", "err-c"}

\* outcome of one attempt: success, a botocore error (BotoCoreError or
\* ClientError), or any other exception
Outcomes == {[kind |-> "ok", err |-> Null]}
            \cup {[kind |-> k, err |-> m] : k \in {"service", "other"}, m \in ErrMsgs}

\* ------------------------------------------------------------------------
\* Responses of speak_text
\* ------------------------------------------------------------------------

SpeakJson(status, useBrowserTTS, engine, text, error) ==
    [status |-> status, useBrowserTTS |-> useBrowserTTS, engine |-> engine,
     text |-> text, error |-> error]

\* lines 590-595, 617-622, 638-643
AudioResponse(engine) == SpeakJson("200", "false", engine, Null, Null)

\* lines 558-563
NoCredentialsResponse(text) == SpeakJson("200", "true", Null, text, Null)

\* lines 647-653 and 657-663 (the same keys)
BrowserTTSResponse(text, error) == SpeakJson("200", "true", Null, text, error)

\* line 554
NoTextResponse == SpeakJson("400", Null, Null, Null, "No text provided")

\* an exception that leaves speak_text: the framework answers, not the handler
EscapedResponse == SpeakJson("500", Null, Null, Null, "UnboundLocalError")

NoResponse == SpeakJson(Null, Null, Null, Null, Null)

\* the engine name each tier tags its audio with (lines 594, 621, 642)
EngineOfTier(k) == CASE k = 1 -> "generative" [] k = 2 -> "neural" [] OTHER -> "standard"

\* ------------------------------------------------------------------------
\* speak_text (lines 547-663)
\* ------------------------------------------------------------------------

SpeakStateInit ==
    /\ sp_pc = "idle"
    /\ sp_text = Unbound
    /\ sp_calls = << >>
    /\ generative_error = Unbound
    /\ neural_error = Unbound
    /\ sp_exit = Null
    /\ sp_resp = NoResponse

SpeakReturn(exit, resp) ==
    /\ sp_pc' = "done"
    /\ sp_exit' = exit
    /\ sp_resp' = resp

\* the outermost handler, lines 655-663: it reads `text`, which is unbound
\* when the exception was raised at line 550 or 551
OuterExcept(text, e) ==
    IF text = Unbound
    THEN SpeakReturn("escaped", EscapedResponse)
    ELSE SpeakReturn("outer_except", BrowserTTSResponse(text, e))

\* SpeakBegin with `and` for `or` at line 556
SpeakBegin_and(body, client) ==
    /\ sp_pc \in {"idle", "done"}
    /\ sp_calls' = << >>
    /\ generative_error' = Unbound
    /\ neural_error' = Unbound
    /\ UNCHANGED <<handleVars, callerVars, chatVars, addVars, pureVars>>
    /\ UNCHANGED <<AWS_ACCESS_KEY, AWS_SECRET_KEY>>
    /\ IF ~body.json
       THEN /\ sp_text' = Unbound
            /\ OuterExcept(Unbound, "AttributeError")
       ELSE /\ sp_text' = body.text
            /\ IF body.text = ""
               THEN SpeakReturn("no_text", NoTextResponse)
               ELSE IF ~AWS_ACCESS_KEY /\ ~AWS_SECRET_KEY
               THEN SpeakReturn("no_credentials", NoCredentialsResponse(body.text))
               ELSE IF client.kind # "ok"
               THEN OuterExcept(body.text, client.err)
               ELSE /\ sp_pc' = "tier1"
                    /\ sp_exit' = Null
                    /\ sp_resp' = NoResponse

\* lines 549-568: read the body, validate, check credentials, build the client
SpeakBegin(body, client) ==
    /\ sp_pc \in {"idle", "done"}
    /\ sp_calls' = << >>
    /\ generative_error' = Unbound
    /\ neural_error' = Unbound
    /\ UNCHANGED <<handleVars, callerVars, chatVars, addVars, pureVars>>
    /\ UNCHANGED <<AWS_ACCESS_KEY, AWS_SECRET_KEY>>
    /\ IF ~body.json
       THEN /\ sp_text' = Unbound
            /\ OuterExcept(Unbound, "AttributeError")
       ELSE /\ sp_text' = body.text
            /\ IF body.text = ""
               THEN SpeakReturn("no_text", NoTextResponse)
               ELSE IF ~AWS_ACCESS_KEY \/ ~AWS_SECRET_KEY
               THEN SpeakReturn("no_credentials", NoCredentialsResponse(body.text))
               ELSE IF client.kind # "ok"
               THEN OuterExcept(body.text, client.err)
               ELSE /\ sp_pc' = "tier1"
                    /\ sp_exit' = Null
                    /\ sp_resp' = NoResponse

\* lines 571-598: the generative attempt.  The markup builder runs first and
\* raises AttributeError on a text that is no string (line 490, text.replace)
SpeakTier1(out) ==
    /\ sp_pc = "tier1"
    /\ UNCHANGED <<handleVars, callerVars, chatVars, addVars, pureVars>>
    /\ UNCHANGED <<AWS_ACCESS_KEY, AWS_SECRET_KEY, sp_text, neural_error>>
    /\ IF sp_text = NonStr
       THEN /\ OuterExcept(sp_text, "AttributeError")
            /\ UNCHANGED <<sp_calls, generative_error>>
       ELSE /\ sp_calls' = Append(sp_calls, [tier |-> 1, kind |-> out.kind, err |-> out.err])
            /\ CASE out.kind = "ok" ->
                      /\ SpeakReturn("audio", AudioResponse(EngineOfTier(1)))
                      /\ UNCHANGED generative_error
                 [] out.kind = "service" ->
                      /\ generative_error' = out.err
                      /\ sp_pc' = "tier2"
                      /\ UNCHANGED <<sp_exit, sp_resp>>
                 [] OTHER ->
                      /\ OuterExcept(sp_text, out.err)
                      /\ UNCHANGED generative_error

\* SpeakTier2 with `except Exception` at line 624
SpeakTier2_broad_except(out) ==
    /\ sp_pc = "tier2"
    /\ UNCHANGED <<handleVars, callerVars, chatVars, addVars, pureVars>>
    /\ UNCHANGED <<AWS_ACCESS_KEY, AWS_SECRET_KEY, sp_text, generative_error>>
    /\ sp_calls' = Append(sp_calls, [tier |-> 2, kind |-> out.kind, err |-> out.err])
    /\ IF out.kind = "ok"
       THEN /\ SpeakReturn("audio", AudioResponse(EngineOfTier(2)))
            /\ UNCHANGED neural_error
       ELSE /\ neural_error' = out.err
            /\ sp_pc' = "tier3"
            /\ UNCHANGED <<sp_exit, sp_resp>>

\* lines 600-625: the neural attempt, inside the handler of line 597
SpeakTier2(out) ==
    /\ sp_pc = "tier2"
    /\ UNCHANGED <<handleVars, callerVars, chatVars, addVars, pureVars>>
    /\ UNCHANGED <<AWS_ACCESS_KEY, AWS_SECRET_KEY, sp_text, generative_error>>
    /\ sp_calls' = Append(sp_calls, [tier |-> 2, kind |-> out.kind, err |-> out.err])
    /\ CASE out.kind = "ok" ->
              /\ SpeakReturn("audio", AudioResponse(EngineOfTier(2)))
              /\ UNCHANGED neural_error
         [] out.kind = "service" ->
              /\ neural_error' = out.err
              /\ sp_pc' = "tier3"
              /\ UNCHANGED <<sp_exit, sp_resp>>
         [] OTHER ->
              /\ OuterExcept(sp_text, out.err)
              /\ UNCHANGED neural_error

\* the signal of lines 647-653: its 'error' is str(neural_error)
ExhaustedResponse(text, fallback_error) == BrowserTTSResponse(text, neural_error)

\* lines 627-653: the standard attempt, inside the handler of line 624; its
\* handler is `except Exception`
SpeakTier3(out) ==
    /\ sp_pc = "tier3"
    /\ UNCHANGED <<handleVars, callerVars, chatVars, addVars, pureVars>>
    /\ UNCHANGED <<AWS_ACCESS_KEY, AWS_SECRET_KEY, sp_text, generative_error, neural_error>>
    /\ sp_calls' = Append(sp_calls, [tier |-> 3, kind |-> out.kind, err |-> out.err])
    /\ IF out.kind = "ok"
       THEN SpeakReturn("audio", AudioResponse(EngineOfTier(3)))
       ELSE SpeakReturn("tier3_except", ExhaustedResponse(sp_text, out.err))

\* ------------------------------------------------------------------------
\* Texts: sequences of symbols
\* ------------------------------------------------------------------------

\* str.lower() on one symbol
LowerSym(c) ==
    CASE c = "Motor" -> "motor"
      [] c = "Frenos" -> "frenos"
      [] c = "Hola" -> "hola"
      [] c = "Paso" -> "paso"
      [] c = "PSI" -> "psi"
      [] c = "RPM" -> "rpm"
      [] c = "Valor" -> "valor"
      [] c = "Advertencia" -> "advertencia"
      [] c = "Nota" -> "nota"
      [] c = "Llave" -> "llave"
      [] OTHER -> c

\* str.lower()
Lower(s) == [i \in 1..Len(s) |-> LowerSym(s[i])]

\* `kw in s`
Contains(s, kw) ==
    \E i \in 1..(Len(s) - Len(kw) + 1) : SubSeq(s, i, i + Len(kw) - 1) = kw

\* any(word in s for word in kws)
AnyIn(kws, s) == \E kw \in kws : Contains(s, kw)

\* a keyword list whose members are one symbol each
Words(S) == {<<w>> : w \in S}

IsSpace(c) == c \in {" ", "\n"}

RECURSIVE LStrip(_)
LStrip(s) == IF s # << >> /\ IsSpace(Head(s)) THEN LStrip(Tail(s)) ELSE s

RECURSIVE RStrip(_)
RStrip(s) ==
    IF s # << >> /\ IsSpace(s[Len(s)]) THEN RStrip(SubSeq(s, 1, Len(s) - 1)) ELSE s

\* str.strip()
Strip(s) == RStrip(LStrip(s))

\* str.split('\n'): the pieces between the line breaks, empty ones included
RECURSIVE SplitLines(_)
SplitLines(s) ==
    IF \A i \in 1..Len(s) : s[i] # "\n"
    THEN <<s>>
    ELSE LET i == CHOOSE j \in 1..Len(s) :
                      s[j] = "\n" /\ \A k \in 1..(j - 1) : s[k] # "\n"
         IN <<SubSeq(s, 1, i - 1)>> \o SplitLines(SubSeq(s, i + 1, Len(s)))

\* "\n".join(parts)
RECURSIVE JoinLines(_)
JoinLines(parts) ==
    IF parts = << >> THEN << >>
    ELSE IF Len(parts) = 1 THEN parts[1]
    ELSE parts[1] \o <<"\n">> \o JoinLines(Tail(parts))

\* s[:n]
Take(s, n) == SubSeq(s, 1, IF Len(s) < n THEN Len(s) ELSE n)

\* ------------------------------------------------------------------------
\* Technical Information Extractor (lines 230-261)
\* ------------------------------------------------------------------------

\* line 246
ProcedureKeywords == Words({"paso", "procedimiento", "instrucción", "método"})

\* line 250
SpecificationKeywords ==
    Words({"especificación", "tolerancia", "medida", "valor", "psi", "rpm", "voltios"})

\* line 254
WarningKeywords == Words({"advertencia", "precaución", "peligro", "importante", "nota"})

\* line 258
ToolKeywords == Words({"herramienta", "equipo", "llave", "medidor"})

\* ClassifyLine with the specification test before the procedure test
ClassifyLine_spec_first(line) ==
    IF AnyIn(SpecificationKeywords, Lower(line)) THEN "specifications"
    ELSE IF AnyIn(ProcedureKeywords, Lower(line)) THEN "procedures"
    ELSE IF AnyIn(WarningKeywords, Lower(line)) THEN "warnings"
    ELSE IF AnyIn(ToolKeywords, Lower(line)) THEN "tools"
    ELSE "none"

\* the if/elif chain of lines 246-259 on one stripped line
ClassifyLine(line) ==
    IF AnyIn(ProcedureKeywords, Lower(line)) THEN "procedures"
    ELSE IF AnyIn(SpecificationKeywords, Lower(line)) THEN "specifications"
    ELSE IF AnyIn(WarningKeywords, Lower(line)) THEN "warnings"
    ELSE IF AnyIn(ToolKeywords, Lower(line)) THEN "tools"
    ELSE "none"

EmptyTechnicalData ==
    [procedures |-> << >>, specifications |-> << >>, warnings |-> << >>, tools |-> << >>]

\* the loop of lines 240-259 over the lines still to do
RECURSIVE ExtractLines(_, _)
ExtractLines(lines, technical_data) ==
    IF lines = << >> THEN technical_data
    ELSE LET line == Strip(Head(lines))
             cat == ClassifyLine(line)
         IN IF line = << >> \/ cat = "none"
            THEN ExtractLines(Tail(lines), technical_data)
            ELSE ExtractLines(Tail(lines),
                     [technical_data EXCEPT ![cat] = Append(@, line)])

extract_technical_info(context) == ExtractLines(SplitLines(context), EmptyTechnicalData)

\* ------------------------------------------------------------------------
\* Response Synthesizer (lines 133-228, 263-469)
\* ------------------------------------------------------------------------

\* A response text is the name of the fixed skeleton that produced it, the
\* lists interpolated into it and whether the disclaimer of line 467 ends it.
ResponseText(template, specifications, procedures, warnings, disclaimer) ==
    [template |-> template, specifications |-> specifications,
     procedures |-> procedures, warnings |-> warnings, disclaimer |-> disclaimer]

FixedText(template) == ResponseText(template, << >>, << >>, << >>, FALSE)

\* what each fixed text asks the user for (lines 137-144, 708-722)
TemplateAsks(template) ==
    CASE template = "no_match" -> {"details", "onset", "error_codes"}
      [] template = "chat_no_data" -> {"details", "symptoms", "onset", "error_codes"}
      [] template = "low_confidence_motor" -> {"symptoms"}
      [] template = "low_confidence_general" -> {"symptoms", "onset", "error_codes"}
      [] OTHER -> {}

\* line 147: 0.7, in hundredths
ConfidenceThreshold == 70

\* line 466: 0.8, in hundredths
DisclaimerBelow == 80

\* line 154: relevant_matches[:3]
TopRelevant == 3

\* lines 263-296
generate_motor_response_with_context(tech_info, confidence) ==
    ResponseText("motor", Take(tech_info.specifications, 3),
                 Take(tech_info.procedures, 3), Take(tech_info.warnings, 2), FALSE)

\* the brakes template with the lists and limits of the engine template
generate_brakes_response_with_motor_limits(tech_info, confidence) ==
    ResponseText("brakes", Take(tech_info.specifications, 3),
                 Take(tech_info.procedures, 3), Take(tech_info.warnings, 2), FALSE)

\* lines 298-325
generate_brakes_response_with_context(tech_info, confidence) ==
    ResponseText("brakes", Take(tech_info.specifications, 2),
                 Take(tech_info.procedures, 3), << >>, FALSE)

\* lines 327-355
generate_oil_response_with_context(tech_info, confidence) ==
    ResponseText("oil", Take(tech_info.specifications, 3),
                 Take(tech_info.procedures, 2), << >>, FALSE)

\* lines 357-384
generate_electrical_response_with_context(tech_info, confidence) ==
    ResponseText("electrical", Take(tech_info.specifications, 3),
                 Take(tech_info.procedures, 2), << >>, FALSE)

\* lines 386-408
generate_tires_response_with_context(tech_info, confidence) ==
    ResponseText("tires", Take(tech_info.specifications, 3), << >>, << >>, FALSE)

\* lines 410-437
generate_transmission_response_with_context(tech_info, confidence) ==
    ResponseText("transmission", Take(tech_info.specifications, 2),
                 Take(tech_info.procedures, 3), << >>, FALSE)

\* lines 439-469
generate_general_response_with_context(tech_info, query, confidence) ==
    ResponseText("general", Take(tech_info.specifications, 2),
                 Take(tech_info.procedures, 3), << >>, confidence < DisclaimerBelow)

\* the keyword lists of lines 215-225, in the order of the elif chain
MotorWords ==
    Words({"motor", "encender", "arrancar", "temperatura", "sobrecalentamiento", "rpm"})
BrakesWords == Words({"frenos", "frenar", "pastillas", "disco", "pedal"})
OilWords == Words({"aceite", "lubricante", "cambio", "viscosidad", "filtro"})
ElectricalWords == Words({"batería", "eléctrico", "corriente", "alternador", "voltaje"})
TiresWords == Words({"llantas", "neumáticos", "presión", "inflado", "desgaste"})
TransmissionWords ==
    Words({"transmisión", "caja", "embrague", "automática"}) \cup {<<"cambio", "s">>}

\* generate_mechanical_response with the brakes test moved before the motor test
generate_mechanical_response_brakes_first(query, context, confidence_score) ==
    LET query_lower == Lower(query)
        key_info == extract_technical_info(context)
    IN IF AnyIn(BrakesWords, query_lower)
       THEN generate_brakes_response_with_context(key_info, confidence_score)
       ELSE IF AnyIn(MotorWords, query_lower)
       THEN generate_motor_response_with_context(key_info, confidence_score)
       ELSE IF AnyIn(OilWords, query_lower)
       THEN generate_oil_response_with_context(key_info, confidence_score)
       ELSE IF AnyIn(ElectricalWords, query_lower)
       THEN generate_electrical_response_with_context(key_info, confidence_score)
       ELSE IF AnyIn(TiresWords, query_lower)
       THEN generate_tires_response_with_context(key_info, confidence_score)
       ELSE IF AnyIn(TransmissionWords, query_lower)
       THEN generate_transmission_response_with_context(key_info, confidence_score)
       ELSE generate_general_response_with_context(key_info, query, confidence_score)

\* lines 207-228
generate_mechanical_response(query, context, confidence_score) ==
    LET query_lower == Lower(query)
        key_info == extract_technical_info(context)
    IN IF AnyIn(MotorWords, query_lower)
       THEN generate_motor_response_with_context(key_info, confidence_score)
       ELSE IF AnyIn(BrakesWords, query_lower)
       THEN generate_brakes_response_with_context(key_info, confidence_score)
       ELSE IF AnyIn(OilWords, query_lower)
       THEN generate_oil_response_with_context(key_info, confidence_score)
       ELSE IF AnyIn(ElectricalWords, query_lower)
       THEN generate_electrical_response_with_context(key_info, confidence_score)
       ELSE IF AnyIn(TiresWords, query_lower)
       THEN generate_tires_response_with_context(key_info, confidence_score)
       ELSE IF AnyIn(TransmissionWords, query_lower)
       THEN generate_transmission_response_with_context(key_info, confidence_score)
       ELSE generate_general_response_with_context(key_info, query, confidence_score)

\* line 174
LowConfidenceMotorWords == Words({"motor", "arranque", "temperatura"})

\* lines 170-205
generate_low_confidence_response(query) ==
    IF AnyIn(LowConfidenceMotorWords, Lower(query))
    THEN FixedText("low_confidence_motor")
    ELSE FixedText("low_confidence_general")

\* RelevantMatches with `>=` for `>` at line 147
RECURSIVE RelevantMatches_ge(_)
RelevantMatches_ge(matches) ==
    IF matches = << >> THEN << >>
    ELSE (IF Head(matches).score >= ConfidenceThreshold THEN <<Head(matches)>> ELSE << >>)
         \o RelevantMatches_ge(Tail(matches))

\* line 147: the matches with score > 0.7, in their order
RECURSIVE RelevantMatches(_)
RelevantMatches(matches) ==
    IF matches = << >> THEN << >>
    ELSE (IF Head(matches).score > ConfidenceThreshold THEN <<Head(matches)>> ELSE << >>)
         \o RelevantMatches(Tail(matches))

\* lines 153-156: the texts of the matches that carry one
RECURSIVE ContextParts(_)
ContextParts(matches) ==
    IF matches = << >> THEN << >>
    ELSE (IF Head(matches).metadata.kind \in {"text", "bad_text"}
          THEN <<Head(matches).metadata.text>> ELSE << >>)
         \o ContextParts(Tail(matches))

\* line 158 raises TypeError when a collected 'text' value is not a string
JoinRaises(matches) ==
    \E i \in 1..Len(matches) : matches[i].metadata.kind = "bad_text"

\* build_context without the [:3] of line 154
build_context_all(relevant_matches) == JoinLines(ContextParts(relevant_matches))

\* lines 152-158: the context built from the first three relevant matches
build_context(relevant_matches) ==
    JoinLines(ContextParts(Take(relevant_matches, TopRelevant)))

\* lines 133-168; context_matches is None or the result object
generate_response(query, context_matches) ==
    IF context_matches.kind = "None" \/ context_matches.matches = << >>
    THEN FixedText("no_match")
    ELSE LET relevant_matches == RelevantMatches(context_matches.matches)
             top == Take(relevant_matches, TopRelevant)
         IN IF relevant_matches = << >>
            THEN generate_low_confidence_response(query)
            ELSE IF JoinRaises(top)
            THEN FixedText("technical_error")
            ELSE generate_mechanical_response(query, build_context(relevant_matches),
                                              relevant_matches[1].score)

\* ------------------------------------------------------------------------
\* The shared handles and init_pinecone (lines 30-69, 543-545, 733-784, 829-832)
\* ------------------------------------------------------------------------

\* total invocations of init_pinecone explored
MaxInitCalls == 3

\* the callers of init_pinecone: the __main__ block, health_check, pinecone_status
Callers == {"startup", "health", "status"}

\* `index` after the module has been loaded: line 32 binds None, line 544
\* rebinds the name to the view function of the '/' route
IndexViewFunction == [kind |-> "function", id |-> 0]

\* the object line 53 binds
IndexHandle(n) == [kind |-> "handle", id |-> n]

\* line 33
ModelNone == [kind |-> "None", id |-> 0]

\* the object line 56 binds
ModelInstance(n) == [kind |-> "model", id |-> n]

\* bool(index): a function and a handle object are both truthy
Truthy(obj) == obj.kind # "None"

HandlesInit ==
    /\ index = IndexViewFunction
    /\ model = ModelNone
    /\ remote_index \in BOOLEAN
    /\ index_creations = 0
    /\ index_bindings = 0
    /\ model_loads = 0
    /\ init_calls = 0

CallersInit ==
    /\ ip_pc = [p \in Callers |-> "idle"]
    /\ ip_create = [p \in Callers |-> FALSE]
    /\ ip_ret = [p \in Callers |-> Null]
    /\ ip_resp = [p \in Callers |-> Null]

\* `return False` of lines 66 and 69, `return True` of line 63
InitReturn(p, value) ==
    /\ ip_ret' = [ip_ret EXCEPT ![p] = value]
    /\ ip_pc' = [ip_pc EXCEPT ![p] = "returned"]

InitGoto(p, label) ==
    /\ ip_pc' = [ip_pc EXCEPT ![p] = label]
    /\ UNCHANGED ip_ret

\* a caller starts: line 832, lines 736-745, line 769.  The __main__ block
\* runs before the server accepts requests, or not at all (imported module).
CallerEnter(p) ==
    /\ ip_pc[p] = "idle"
    /\ UNCHANGED <<speakVars, chatVars, addVars, pureVars>>
    /\ UNCHANGED <<PINECONE_API_KEY, index, model, remote_index, index_creations,
                   index_bindings, model_loads, ip_create>>
    /\ IF p = "health" /\ ~PINECONE_API_KEY
       THEN /\ ip_resp' = [ip_resp EXCEPT ![p] = "200 Desconectado"]
            /\ UNCHANGED <<ip_pc, ip_ret, init_calls>>
       ELSE /\ init_calls < MaxInitCalls
            /\ IF p = "startup"
               THEN init_calls = 0 /\ \A q \in Callers : ip_resp[q] = Null
               ELSE ip_pc["startup"] \in {"idle", "serving"}
            /\ init_calls' = init_calls + 1
            /\ ip_resp' = [ip_resp EXCEPT ![p] = Null]
            /\ ip_ret' = [ip_ret EXCEPT ![p] = Null]
            /\ ip_pc' = [ip_pc EXCEPT ![p] = "line39"]

\* lines 39-41: the key test and pinecone.init
InitConfigure(p, ok) ==
    /\ ip_pc[p] = "line39"
    /\ UNCHANGED <<speakVars, handleVars, chatVars, addVars, pureVars, ip_create, ip_resp>>
    /\ IF PINECONE_API_KEY /\ ok
       THEN InitGoto(p, "line44")
       ELSE InitReturn(p, "False")

\* line 44: INDEX_NAME not in pinecone.list_indexes()
InitListIndexes(p, ok) ==
    /\ ip_pc[p] = "line44"
    /\ UNCHANGED <<speakVars, handleVars, chatVars, addVars, pureVars, ip_resp>>
    /\ IF ok
       THEN /\ ip_create' = [ip_create EXCEPT ![p] = ~remote_index]
            /\ InitGoto(p, IF remote_index THEN "line53" ELSE "line46")
       ELSE /\ UNCHANGED ip_create
            /\ InitReturn(p, "False")

\* lines 46-50: pinecone.create_index; the service rejects a name that exists
InitCreateIndex(p, ok) ==
    /\ ip_pc[p] = "line46"
    /\ UNCHANGED <<speakVars, chatVars, addVars, pureVars, ip_create, ip_resp>>
    /\ UNCHANGED <<PINECONE_API_KEY, index, model, index_bindings, model_loads, init_calls>>
    /\ IF ok /\ ~remote_index
       THEN /\ remote_index' = TRUE
            /\ index_creations' = index_creations + 1
            /\ InitGoto(p, "line53")
       ELSE /\ UNCHANGED <<remote_index, index_creations>>
            /\ InitReturn(p, "False")

\* line 53: index = pinecone.Index(INDEX_NAME)
InitBindIndex(p) ==
    /\ ip_pc[p] = "line53"
    /\ UNCHANGED <<speakVars, chatVars, addVars, pureVars, ip_create, ip_resp>>
    /\ UNCHANGED <<PINECONE_API_KEY, model, remote_index, index_creations, model_loads,
                   init_calls>>
    /\ index_bindings' = index_bindings + 1
    /\ index' = IndexHandle(index_bindings + 1)
    /\ InitGoto(p, "line56")

\* line 56: model = SentenceTransformer('all-MiniLM-L6-v2')
InitLoadModel(p, ok) ==
    /\ ip_pc[p] = "line56"
    /\ UNCHANGED <<speakVars, chatVars, addVars, pureVars, ip_create, ip_resp>>
    /\ UNCHANGED <<PINECONE_API_KEY, index, remote_index, index_creations, index_bindings,
                   init_calls>>
    /\ IF ok
       THEN /\ model_loads' = model_loads + 1
            /\ model' = ModelInstance(model_loads + 1)
            /\ InitGoto(p, "line60")
       ELSE /\ UNCHANGED <<model, model_loads>>
            /\ InitReturn(p, "False")

\* lines 60-63: index.describe_index_stats() and return True
InitDescribe(p, ok) ==
    /\ ip_pc[p] = "line60"
    /\ UNCHANGED <<speakVars, handleVars, chatVars, addVars, pureVars, ip_create, ip_resp>>
    /\ InitReturn(p, IF ok THEN "True" ELSE "False")

\* after init_pinecone has returned: nothing more at startup; lines 746-763
\* of health_check; lines 770-784 of pinecone_status.  `if index:` is true of
\* the view function too, which has no describe_index_stats attribute.
CallerFinish(p, ok) ==
    /\ ip_pc[p] = "returned"
    /\ UNCHANGED <<speakVars, handleVars, chatVars, addVars, pureVars, ip_create, ip_ret>>
    /\ LET probe == IF ~Truthy(index) THEN "skipped"
                    ELSE IF index.kind = "handle" /\ ok THEN "stats"
                    ELSE "raised"
       IN CASE p = "startup" ->
                  /\ ip_pc' = [ip_pc EXCEPT ![p] = "serving"]
                  /\ UNCHANGED ip_resp
            [] p = "health" ->
                  /\ ip_pc' = [ip_pc EXCEPT ![p] = "idle"]
                  /\ ip_resp' = [ip_resp EXCEPT ![p] =
                        CASE probe = "stats" -> "200 Conectado"
                          [] probe = "raised" -> "200 Error de conexión"
                          [] OTHER -> "200 Desconectado"]
            [] OTHER ->
                  /\ ip_pc' = [ip_pc EXCEPT ![p] = "idle"]
                  /\ ip_resp' = [ip_resp EXCEPT ![p] =
                        IF probe = "raised" THEN "500 error"
                        ELSE IF ip_ret[p] = "True" THEN "200 pinecone_ready=True"
                        ELSE "200 pinecone_ready=False"]

\* every step a caller of init_pinecone can take
CallerStep(p) ==
    \/ CallerEnter(p)
    \/ \E ok \in BOOLEAN : InitConfigure(p, ok)
    \/ \E ok \in BOOLEAN : InitListIndexes(p, ok)
    \/ \E ok \in BOOLEAN : InitCreateIndex(p, ok)
    \/ InitBindIndex(p)
    \/ \E ok \in BOOLEAN : InitLoadModel(p, ok)
    \/ \E ok \in BOOLEAN : InitDescribe(p, ok)
    \/ \E ok \in BOOLEAN : CallerFinish(p, ok)

\* ------------------------------------------------------------------------
\* chat (lines 665-731) and query_pinecone (lines 101-131)
\* ------------------------------------------------------------------------

\* longest MatchSet explored
MaxMatches == 2

\* similarity scores, in hundredths
Scores == {60, 70, 71, 85}

\* passages stored as metadata text
Passages == {
    <<"Paso", " ", "1", "\n", "PSI", " ", "32", "\n", " ", "Advertencia", " ", "\n",
      "Llave", "\n", "texto">>,
    <<"Valor", " ", "nominal", "\n", "\n", "Nota">> }

\* metadata of a match: with a text passage, without a 'text' key, or with a
\* 'text' value that is not a string
Metadatas == {[kind |-> "text", text |-> t] : t \in Passages}
             \cup {[kind |-> "no_text", text |-> << >>],
                   [kind |-> "bad_text", text |-> << >>]}

Matches == [score : Scores, metadata : Metadatas]

\* the index returns its matches ranked by descending score
Ranked(ms) == \A i \in 1..(Len(ms) - 1) : ms[i].score >= ms[i + 1].score

MatchSets == UNION {{ms \in [1..n -> Matches] : Ranked(ms)} : n \in 0..MaxMatches}

\* a MatchSet of the data model: every text that is present is a passage
WellFormed(ms) == \A i \in 1..Len(ms) : ms[i].metadata.kind # "bad_text"

\* messages of a chat request
Messages == {
    << >>,
    <<"hola">>,
    <<"Hola", " ", "motor">>,
    <<"motor">>,
    <<"Motor", " ", "y", " ", "frenos">>,
    <<"Frenos", " ", "y", " ", "aceite">>,
    <<"cambio", "s", " ", "de", " ", "aceite">>,
    <<"cambio", "s">>,
    <<"batería", " ", "y", " ", "llantas">>,
    <<"llantas", " ", "y", " ", "embrague">>,
    <<"embrague">>,
    <<"arranque">>,
    <<"ruido">> }

\* request bodies: no usable JSON object, a 'message' that is not a string,
\* or a string message ('' when the key is absent)
ChatBodies == {[json |-> FALSE, is_str |-> FALSE, message |-> << >>],
               [json |-> TRUE, is_str |-> FALSE, message |-> << >>]}
              \cup {[json |-> TRUE, is_str |-> TRUE, message |-> m] : m \in Messages}

\* what index.query does: raises, or returns an object with .matches
QueryOutcomes == {[kind |-> "raise", matches |-> << >>]}
                 \cup {[kind |-> "results", matches |-> ms] : ms \in MatchSets}

ResultsNone == [kind |-> "None", matches |-> << >>]

\* lines 71-86: [calls made, embedding obtained]
get_embedding(text_is_str, encode_ok) ==
    IF model.kind = "None" THEN [calls |-> << >>, embedding |-> FALSE]
    ELSE IF ~text_is_str THEN [calls |-> << >>, embedding |-> FALSE]
    ELSE [calls |-> <<"encode">>, embedding |-> encode_ok]

\* lines 101-131: [calls made, value returned]
query_pinecone(query, encode_ok, query_out) ==
    IF ~Truthy(index) THEN [calls |-> << >>, results |-> ResultsNone]
    ELSE LET e == get_embedding(TRUE, encode_ok)
         IN IF ~e.embedding THEN [calls |-> e.calls, results |-> ResultsNone]
            ELSE IF index.kind # "handle"
            THEN [calls |-> e.calls, results |-> ResultsNone]
            ELSE [calls |-> Append(e.calls, "query"),
                  results |-> IF query_out.kind = "raise" THEN ResultsNone ELSE query_out]

\* line 676
GreetingWords ==
    Words({"hola", "saludos", "iniciar", "empezar"})
    \cup {<<"buenos", " ", "días">>, <<"buenas", " ", "tardes">>}

ChatJson(status, response, error) ==
    [status |-> status, response |-> response, error |-> error]

NoText == FixedText(Null)

ChatStateInit ==
    /\ ch_body = [json |-> FALSE, is_str |-> FALSE, message |-> << >>]
    /\ ch_calls = << >>
    /\ ch_results = ResultsNone
    /\ ch_exit = Null
    /\ ch_resp = ChatJson(Null, NoText, Null)

ChatReturn(exit, calls, results, resp) ==
    /\ ch_exit' = exit
    /\ ch_calls' = calls
    /\ ch_results' = results
    /\ ch_resp' = resp

\* lines 702-722: the answer to a technical query, from what query_pinecone
\* returned
chat_answer_surfacing(message, pinecone_results) ==
    IF pinecone_results.kind # "None" /\ Len(pinecone_results.matches) > 0
    THEN [exit |-> "generate_response",
          resp |-> ChatJson("200", generate_response(message, pinecone_results), Null)]
    ELSE [exit |-> "no_data",
          resp |-> IF pinecone_results.kind = "None"
                   THEN ChatJson("500", NoText, "search unavailable")
                   ELSE ChatJson("200", FixedText("chat_no_data"), Null)]

chat_answer(message, pinecone_results) ==
    IF pinecone_results.kind # "None" /\ Len(pinecone_results.matches) > 0
    THEN [exit |-> "generate_response",
          resp |-> ChatJson("200", generate_response(message, pinecone_results), Null)]
    ELSE [exit |-> "no_data",
          resp |-> ChatJson("200", FixedText("chat_no_data"), Null)]

\* the outcomes of index.query a request can tell apart: all of them when
\* the request reaches line 117, one otherwise
QueriesConsulted(body, encode_ok) ==
    IF /\ body.json /\ body.is_str /\ body.message # << >>
       /\ ~AnyIn(GreetingWords, Lower(body.message))
       /\ query_pinecone(body.message, encode_ok, ResultsNone).calls = <<"encode", "query">>
    THEN QueryOutcomes
    ELSE {[kind |-> "raise", matches |-> << >>]}

\* Chat with the search of line 700 made before the greeting test of line 676
Chat_search_first(body, encode_ok, query_out) ==
    /\ ch_exit = Null
    /\ UNCHANGED <<speakVars, handleVars, callerVars, addVars, pureVars>>
    /\ ch_body' = body
    /\ IF ~body.json
       THEN ChatReturn("outer_except", << >>, ResultsNone,
                       ChatJson("500", NoText, "AttributeError"))
       ELSE IF body.is_str /\ body.message = << >>
       THEN ChatReturn("no_message", << >>, ResultsNone,
                       ChatJson("400", NoText, "No message provided"))
       ELSE IF ~body.is_str
       THEN ChatReturn("outer_except", << >>, ResultsNone,
                       ChatJson("500", NoText, "AttributeError"))
       ELSE LET q == query_pinecone(body.message, encode_ok, query_out)
                a == chat_answer(body.message, q.results)
            IN IF AnyIn(GreetingWords, Lower(body.message))
               THEN ChatReturn("greeting", q.calls, ResultsNone,
                               ChatJson("200", FixedText("greeting"), Null))
               ELSE ChatReturn(a.exit, q.calls, q.results, a.resp)

\* lines 665-731
Chat(body, encode_ok, query_out) ==
    /\ ch_exit = Null
    /\ UNCHANGED <<speakVars, handleVars, callerVars, addVars, pureVars>>
    /\ ch_body' = body
    /\ IF ~body.json
       THEN ChatReturn("outer_except", << >>, ResultsNone,
                       ChatJson("500", NoText, "AttributeError"))
       ELSE IF body.is_str /\ body.message = << >>
       THEN ChatReturn("no_message", << >>, ResultsNone,
                       ChatJson("400", NoText, "No message provided"))
       ELSE IF ~body.is_str
       THEN ChatReturn("outer_except", << >>, ResultsNone,
                       ChatJson("500", NoText, "AttributeError"))
       ELSE IF AnyIn(GreetingWords, Lower(body.message))
       THEN ChatReturn("greeting", << >>, ResultsNone,
                       ChatJson("200", FixedText("greeting"), Null))
       ELSE LET q == query_pinecone(body.message, encode_ok, query_out)
                a == chat_answer(body.message, q.results)
            IN ChatReturn(a.exit, q.calls, q.results, a.resp)

\* ------------------------------------------------------------------------
\* add_knowledge (lines 786-827)
\* ------------------------------------------------------------------------

\* successful add_knowledge requests explored
MaxAdds == 2

Ids == {"", "doc1", "doc2"}

AddTexts == {"", "par de apriete 90 Nm", "purgar frenos", NonStr}

\* the caller's metadata mapping ({} when the key is absent)
CallerMetadatas == {"{}", "{source: manual}"}

AddBodies == {[json |-> FALSE, text |-> "", id |-> "", metadata |-> "{}"]}
             \cup [json : {TRUE}, text : AddTexts, id : Ids, metadata : CallerMetadatas]

NoRecord == [present |-> FALSE, text |-> Null, metadata |-> Null, added_date |-> 0]

\* the tuple of line 815: the metadata after the update of lines 807-812
KnowledgeRecord(text, metadata, now) ==
    [present |-> TRUE, text |-> text, metadata |-> metadata, added_date |-> now]

AddJson(status, error, doc_id) == [status |-> status, error |-> error, doc_id |-> doc_id]

\* datetime.now() of line 811: a clock that advances with every request
Now == Len(ad_calls[2]) + 1

AddStateInit ==
    /\ store = [i \in Ids \ {""} |-> NoRecord]
    /\ ad_body = [json |-> FALSE, text |-> "", id |-> "", metadata |-> "{}"]
    /\ ad_calls = << << >>, << >> >>
    /\ ad_resp = AddJson(Null, Null, Null)

\* index.upsert of line 815 keeps the first record stored under an id
Upsert_insert_only(records, doc_id, record) ==
    IF records[doc_id].present THEN records ELSE [records EXCEPT ![doc_id] = record]

\* index.upsert([(doc_id, embedding, metadata)]) of line 815: the record
\* stored under doc_id is written, whether or not one was there
Upsert(records, doc_id, record) == [records EXCEPT ![doc_id] = record]

\* [calls of this request, the (id, text, metadata) of all upserts so far]
AddReturn(calls, upserted, resp) ==
    /\ ad_calls' = <<calls, ad_calls[2] \o upserted>>
    /\ ad_resp' = resp

\* lines 786-827
AddKnowledge(body, encode_ok, upsert_ok) ==
    /\ Len(ad_calls[2]) < MaxAdds
    /\ UNCHANGED <<speakVars, handleVars, callerVars, chatVars, pureVars>>
    /\ ad_body' = body
    /\ IF ~Truthy(index) \/ ~Truthy(model)
       THEN /\ AddReturn(<< >>, << >>, AddJson("500", "Pinecone no inicializado", Null))
            /\ UNCHANGED store
       ELSE IF ~body.json
       THEN /\ AddReturn(<< >>, << >>, AddJson("500", "AttributeError", Null))
            /\ UNCHANGED store
       ELSE IF body.text = "" \/ body.id = ""
       THEN /\ AddReturn(<< >>, << >>, AddJson("400", "Texto e ID son requeridos", Null))
            /\ UNCHANGED store
       ELSE LET e == get_embedding(body.text # NonStr, encode_ok)
            IN IF ~e.embedding
               THEN /\ AddReturn(e.calls, << >>,
                                 AddJson("500", "No se pudo generar embedding", Null))
                    /\ UNCHANGED store
               ELSE IF index.kind # "handle"
               THEN /\ AddReturn(e.calls, << >>, AddJson("500", "AttributeError", Null))
                    /\ UNCHANGED store
               ELSE IF ~upsert_ok
               THEN /\ AddReturn(Append(e.calls, "upsert"), << >>,
                                 AddJson("500", "upsert failed", Null))
                    /\ UNCHANGED store
               ELSE /\ AddReturn(Append(e.calls, "upsert"),
                                 <<[id |-> body.id, text |-> body.text,
                                    metadata |-> body.metadata]>>,
                                 AddJson("200", Null, body.id))
                    /\ store' = Upsert(store, body.id,
                                       KnowledgeRecord(body.text, body.metadata, Now))

\* ------------------------------------------------------------------------
\* Calls of extract_technical_info and generate_response on given arguments
\* ------------------------------------------------------------------------

\* lines of the context of one call of extract_technical_info
MaxLines == 4

\* lines of a context: a keyword of one list (mixed case, inside a longer
\* word), keywords of several lists, padding, no keyword, and the empty line
ContextLines == {
    <<"re", "Paso", " ", "1">>,
    <<"Valor", " ", "90">>,
    <<"Nota", " ", "A">>,
    <<"Llave", " ", "10">>,
    <<" ", "paso", " ", "de", " ", "valor", " ">>,
    <<"llave", " ", "nota", " ", "PSI">>,
    <<"texto">>,
    << >> }

\* the contexts of up to MaxLines lines
ExtractContexts ==
    {JoinLines(ls) : ls \in UNION {[1..n -> ContextLines] : n \in 0..MaxLines}}

\* no call in progress
ExtractIdle ==
    /\ ex_context = << >>
    /\ ex_info = EmptyTechnicalData
    /\ ex_pc = "idle"

\* a call of extract_technical_info with its argument
ExtractCalled ==
    /\ ex_context \in ExtractContexts
    /\ ex_info = EmptyTechnicalData
    /\ ex_pc = "call"

\* lines 230-261
ExtractTechnicalInfo ==
    /\ ex_pc = "call"
    /\ ex_info' = extract_technical_info(ex_context)
    /\ ex_pc' = "return"
    /\ UNCHANGED <<speakVars, handleVars, callerVars, chatVars, addVars, synthVars,
                   ex_context>>

\* matches handed to one call of generate_response (query_pinecone asks for
\* top_k = 5 at line 101)
MaxContextMatches == 4

\* passages whose lines are all different
SynthPassages == {
    <<"Paso", " ", "1", "\n", "Paso", " ", "2", "\n", "Valor", " ", "90", "\n",
      "Nota", " ", "A">>,
    <<"12", " ", "PSI", "\n", "800", " ", "RPM", "\n", "Advertencia", " ", "B", "\n",
      "Paso", " ", "3">> }

\* matches at and above the threshold, with and without a 'text' key
SynthMatches ==
    [score : {70, 85},
     metadata : {[kind |-> "text", text |-> t] : t \in SynthPassages}
                \cup {[kind |-> "no_text", text |-> << >>]}]

\* generate_response takes the matches in whatever order the argument has them
SynthMatchSets == UNION {[1..n -> SynthMatches] : n \in 0..MaxContextMatches}

\* one query for each branch of generate_mechanical_response
SynthQueries == {<<"motor">>, <<"frenos">>, <<"aceite">>, <<"batería">>, <<"llantas">>,
                 <<"embrague">>, <<"ruido">>}

\* no call in progress
SynthIdle ==
    /\ sy_query = << >>
    /\ sy_matches = << >>
    /\ sy_context = << >>
    /\ sy_info = EmptyTechnicalData
    /\ sy_resp = FixedText(Null)
    /\ sy_pc = "idle"

\* a call of generate_response with its arguments
SynthCalled ==
    /\ sy_query \in SynthQueries
    /\ sy_matches \in SynthMatchSets
    /\ sy_context = << >>
    /\ sy_info = EmptyTechnicalData
    /\ sy_resp = FixedText(Null)
    /\ sy_pc = "call"

\* lines 133-168, with the context of line 158 and the key_info of line 210
\* when the call gets that far
GenerateResponse ==
    /\ sy_pc = "call"
    /\ LET relevant_matches == RelevantMatches(sy_matches)
           context == IF relevant_matches = << >> THEN << >>
                      ELSE build_context(relevant_matches)
       IN /\ sy_context' = context
          /\ sy_info' = extract_technical_info(context)
    /\ sy_resp' = generate_response(sy_query, [kind |-> "results", matches |-> sy_matches])
    /\ sy_pc' = "return"
    /\ UNCHANGED <<speakVars, handleVars, callerVars, chatVars, addVars, extractVars,
                   sy_query, sy_matches>>

\* ------------------------------------------------------------------------
\* Specifications
\* ------------------------------------------------------------------------

\* the configuration read from the environment at lines 22-27
Configured(aws_access, aws_secret, pinecone) ==
    /\ AWS_ACCESS_KEY \in aws_access
    /\ AWS_SECRET_KEY \in aws_secret
    /\ PINECONE_API_KEY \in pinecone

\* the state once the module is loaded
Loaded ==
    /\ SpeakStateInit
    /\ HandlesInit
    /\ CallersInit
    /\ ChatStateInit
    /\ AddStateInit
    /\ ExtractIdle
    /\ SynthIdle

Init == Configured(BOOLEAN, BOOLEAN, BOOLEAN) /\ Loaded

\* the speech path: one speak request after another, any speech configuration
SpeakNext ==
    \/ \E body \in SpeakBodies, client \in Outcomes : SpeakBegin(body, client)
    \/ \E out \in Outcomes : SpeakTier1(out)
    \/ \E out \in Outcomes : SpeakTier2(out)
    \/ \E out \in Outcomes : SpeakTier3(out)

SpeakInit == Configured(BOOLEAN, BOOLEAN, {FALSE}) /\ Loaded

SpecSpeak == SpeakInit /\ [][SpeakNext]_vars

\* the callers of init_pinecone, interleaved statement by statement
InitNext == \E p \in Callers : CallerStep(p)

ServiceInit == Configured({TRUE}, {TRUE}, BOOLEAN) /\ Loaded

SpecInit == ServiceInit /\ [][InitNext]_vars

\* one chat request at any moment of the start-up initialisation
ChatNext ==
    \/ CallerStep("startup")
    \/ /\ ch_exit = Null
       /\ \E body \in ChatBodies, encode_ok \in BOOLEAN :
              \E query_out \in QueriesConsulted(body, encode_ok) :
                  Chat(body, encode_ok, query_out)

SpecChat == ServiceInit /\ [][ChatNext]_vars

\* add_knowledge requests at any moment of the start-up initialisation
AddNext ==
    \/ CallerStep("startup")
    \/ \E body \in AddBodies, encode_ok \in BOOLEAN, upsert_ok \in BOOLEAN :
           AddKnowledge(body, encode_ok, upsert_ok)

SpecAdd == ServiceInit /\ [][AddNext]_vars

\* the service before any request, its configuration complete
ServiceIdle ==
    /\ Configured({TRUE}, {TRUE}, {TRUE})
    /\ SpeakStateInit
    /\ HandlesInit
    /\ remote_index
    /\ CallersInit
    /\ ChatStateInit
    /\ AddStateInit

\* extract_technical_info applied to each context
ExtractInit == ServiceIdle /\ ExtractCalled /\ SynthIdle

ExtractNext == ExtractTechnicalInfo

SpecExtract == ExtractInit /\ [][ExtractNext]_vars

\* generate_response applied to each query and result
SynthInit == ServiceIdle /\ ExtractIdle /\ SynthCalled

SynthNext == GenerateResponse

SpecSynth == SynthInit /\ [][SynthNext]_vars

\* the whole service
Next == SpeakNext \/ InitNext \/ ChatNext \/ AddNext \/ ExtractNext \/ SynthNext

Spec == Init /\ [][Next]_vars

\* ------------------------------------------------------------------------
\* Properties of the speech fallback chain (SpecSpeak)
\* ------------------------------------------------------------------------

SpeakHasCredentials == AWS_ACCESS_KEY /\ AWS_SECRET_KEY

SpeakAnswered == sp_pc = "done"

\* C1: the synthesis calls of a request are tiers 1, 2, 3 in that order, each
\* at most once and never more than three; a tier is attempted only after the
\* tier before it failed with a service error; a tier that succeeds ends the
\* request with audio tagged with that tier's engine; calls are made only by
\* a request with credentials and a non-empty text.
C1_TiersInOrder ==
    /\ Len(sp_calls) <= 3
    /\ \A i \in 1..Len(sp_calls) : sp_calls[i].tier = i
    /\ \A i \in 2..Len(sp_calls) : sp_calls[i - 1].kind = "service"
    /\ \A i \in 1..Len(sp_calls) :
           sp_calls[i].kind = "ok" =>
               /\ i = Len(sp_calls)
               /\ SpeakAnswered
               /\ sp_resp.status = "200"
               /\ sp_resp.useBrowserTTS = "false"
               /\ sp_resp.engine = <<"generative", "neural", "standard">>[i]
    /\ sp_resp.engine # Null =>
           /\ sp_calls # << >>
           /\ sp_calls[Len(sp_calls)].kind = "ok"
    /\ sp_calls # << >> => SpeakHasCredentials /\ sp_text \notin {"", Unbound}
    /\ sp_pc = "tier1" => sp_calls = << >>
    /\ sp_pc = "tier2" => Len(sp_calls) = 1
    /\ sp_pc = "tier3" => Len(sp_calls) = 2

\* tiers 1 and 2 failed, tier 3 succeeded: audio tagged standard after 3 calls
C1_Witness ==
    /\ SpeakAnswered
    /\ Len(sp_calls) = 3
    /\ sp_calls[1].kind = "service" /\ sp_calls[2].kind = "service"
    /\ sp_calls[3].kind = "ok"
    /\ sp_resp.engine = "standard"

\* C2: when the tier 3 attempt fails with a service error, the response is the
\* client-side fallback signal with the original text and the error of the
\* tier 3 attempt.
C2_FallbackCarriesTier3Error ==
    (SpeakAnswered /\ Len(sp_calls) = 3 /\ sp_calls[3].kind = "service") =>
        /\ sp_resp.useBrowserTTS = "true"
        /\ sp_resp.text = sp_text
        /\ sp_resp.error = sp_calls[3].err

\* C3: an exception that is no service error, raised by the attempt of any
\* tier, ends the request in the handler for unexpected errors and is the
\* error reported; it is never handled as a tier failure.
C3_OnlyServiceErrorsAreTierFailures ==
    \A i \in 1..Len(sp_calls) :
        sp_calls[i].kind = "other" =>
            /\ i = Len(sp_calls)
            /\ SpeakAnswered
            /\ sp_exit = "outer_except"
            /\ sp_resp.error = sp_calls[i].err

\* C4: without credentials a request with a non-empty text is answered with
\* the client-side fallback signal carrying that text, and no synthesis call
\* is made.
C4_NoCredentialsNoCalls ==
    /\ ~SpeakHasCredentials => sp_calls = << >> /\ sp_pc \in {"idle", "done"}
    /\ (~SpeakHasCredentials /\ SpeakAnswered /\ sp_text \notin {"", Unbound}) =>
           /\ sp_exit = "no_credentials"
           /\ sp_resp.status = "200"
           /\ sp_resp.useBrowserTTS = "true"
           /\ sp_resp.text = sp_text
           /\ sp_resp.engine = Null

\* only the secret key is missing, and the request was answered
C4_Witness ==
    /\ AWS_ACCESS_KEY /\ ~AWS_SECRET_KEY
    /\ SpeakAnswered
    /\ sp_text = "revisar motor"
    /\ sp_resp.useBrowserTTS = "true"

\* C11: every speak request is answered by speak_text itself with a
\* well-formed response (audio, the validation error or a fallback signal);
\* an exception raised anywhere, the reading of the body included, ends in
\* the fallback signal of the outermost handler and never leaves speak_text.
C11_SpeakNeverRaises ==
    SpeakAnswered =>
        /\ sp_exit # "escaped"
        /\ sp_resp.status \in {"200", "400"}
        /\ sp_exit = "outer_except" => sp_resp.useBrowserTTS = "true"

\* ------------------------------------------------------------------------
\* Properties of the chat pipeline (SpecChat)
\* ------------------------------------------------------------------------

\* the request carried a non-empty string that is no greeting
ChatTechnicalQuery ==
    /\ ch_exit # Null
    /\ ch_body.json /\ ch_body.is_str /\ ch_body.message # << >>
    /\ ~AnyIn(GreetingWords, Lower(ch_body.message))

ChatText == ch_resp.response

ContextTemplates ==
    {"motor", "brakes", "oil", "electrical", "tires", "transmission", "general"}

NoInterpolatedLists ==
    /\ ChatText.specifications = << >>
    /\ ChatText.procedures = << >>
    /\ ChatText.warnings = << >>

\* C5: a response of a category template or of the general template is given
\* only when some match scores above 0.70; when every score is at most 0.70
\* the response is one of the two low-confidence texts, chosen by the query
\* alone, and interpolates nothing.
C5_ConfidenceGate ==
    ch_exit = "generate_response" =>
        LET ms == ch_results.matches
            above == \E i \in 1..Len(ms) : ms[i].score > 70
        IN /\ ms # << >>
           /\ ChatText.template \in ContextTemplates => above
           /\ ~above =>
                 /\ ChatText.template =
                        IF AnyIn(Words({"motor", "arranque", "temperatura"}),
                                 Lower(ch_body.message))
                        THEN "low_confidence_motor"
                        ELSE "low_confidence_general"
                 /\ NoInterpolatedLists
                 /\ ~ChatText.disclaimer

\* the best score is exactly 0.70 and the match carries a passage
C5_Witness ==
    /\ ch_exit = "generate_response"
    /\ ch_results.matches[1].score = 70
    /\ ch_results.matches[1].metadata.kind = "text"
    /\ ChatText.template = "low_confidence_general"

CategoryOrder == <<"motor", "brakes", "oil", "electrical", "tires", "transmission">>

CategoryWords(c) ==
    CASE c = "motor" -> MotorWords
      [] c = "brakes" -> BrakesWords
      [] c = "oil" -> OilWords
      [] c = "electrical" -> ElectricalWords
      [] c = "tires" -> TiresWords
      [] OTHER -> TransmissionWords

\* the first category of the priority order with a keyword in the query
FirstCategory(query_lower) ==
    LET hits == {i \in 1..Len(CategoryOrder) :
                     AnyIn(CategoryWords(CategoryOrder[i]), query_lower)}
    IN IF hits = {} THEN "general"
       ELSE CategoryOrder[CHOOSE i \in hits : \A j \in hits : i <= j]

\* C6: with a match scoring above 0.70 the response comes from the template of
\* the first category, in the order engine, brakes, lubrication, electrical,
\* tires, transmission, that has a keyword in the lower-cased query, and from
\* the general template when none has; a query with 'motor' and 'frenos' gets
\* the engine template.
C6_FirstCategoryWins ==
    (/\ ch_exit = "generate_response"
     /\ WellFormed(ch_results.matches)
     /\ \E i \in 1..Len(ch_results.matches) : ch_results.matches[i].score > 70) =>
        /\ ChatText.template = FirstCategory(Lower(ch_body.message))
        /\ (/\ Contains(Lower(ch_body.message), <<"motor">>)
            /\ Contains(Lower(ch_body.message), <<"frenos">>)) =>
               ChatText.template = "motor"

\* a query naming the engine and the brakes was answered above the threshold
C6_Witness ==
    /\ ch_exit = "generate_response"
    /\ ch_body.message = <<"Motor", " ", "y", " ", "frenos">>
    /\ ch_results.matches[1].score = 85
    /\ ChatText.template = "motor"

\* C7: a technical query whose search gave nothing (query_pinecone returned
\* None, as it does while the model is not loaded or the index is not bound,
\* or the MatchSet was empty) is answered 200 with the fixed text that asks
\* for symptoms, onset and error codes, and with no error field.
C7_NoDataTemplate ==
    /\ (ChatTechnicalQuery /\ (model.kind = "None" \/ index.kind # "handle")) =>
           ch_results.kind = "None"
    /\ (ChatTechnicalQuery /\ (ch_results.kind = "None" \/ ch_results.matches = << >>)) =>
           /\ ch_resp.status = "200"
           /\ ch_resp.error = Null
           /\ ChatText = FixedText("chat_no_data")
           /\ {"symptoms", "onset", "error_codes"} \subseteq TemplateAsks(ChatText.template)

\* index.query raised during a technical query
C7_Witness ==
    /\ ChatTechnicalQuery
    /\ ch_calls = <<"encode", "query">>
    /\ ch_results.kind = "None"
    /\ ch_resp.status = "200"

\* C12: a message with a greeting keyword ('hola', 'buenos días', 'buenas
\* tardes', 'saludos', 'iniciar', 'empezar') in its lower-cased text is answered
\* 200 with the fixed greeting text, and the request calls neither model.encode
\* nor index.query.
C12_GreetingBypassesRetrieval ==
    (/\ ch_exit # Null
     /\ ch_body.json /\ ch_body.is_str
     /\ \E kw \in {<<"hola">>, <<"buenos", " ", "días">>, <<"buenas", " ", "tardes">>,
                     <<"saludos">>, <<"iniciar">>, <<"empezar">>} :
            Contains(Lower(ch_body.message), kw)) =>
        /\ ch_exit = "greeting"
        /\ ch_resp = ChatJson("200", FixedText("greeting"), Null)
        /\ ch_calls = << >>
        /\ ch_results = ResultsNone

\* 'Hola motor' was answered while the model was loaded and the index bound
C12_Witness ==
    /\ ch_exit = "greeting"
    /\ ch_body.message = <<"Hola", " ", "motor">>
    /\ model.kind = "model" /\ index.kind = "handle"
    /\ ch_resp.response.template = "greeting"

\* C10: whatever is raised while a chat request is processed, the caller gets
\* a response text (the apology text when something was raised), never an
\* error in place of it.
C10_ChatNeverAnswersRawError ==
    (ch_exit # Null /\ ch_exit # "no_message") =>
        /\ ch_resp.status = "200"
        /\ ch_resp.error = Null
        /\ ChatText.template # Null

\* ------------------------------------------------------------------------
\* Properties of add_knowledge (SpecAdd)
\* ------------------------------------------------------------------------

\* C8: a request whose id or text is missing or empty is answered 400 in every
\* state of the service, and calls neither the model nor the index.
C8_ValidationErrorInEveryState ==
    (ad_resp.status # Null /\ ad_body.json /\ (ad_body.id = "" \/ ad_body.text = "")) =>
        /\ ad_resp.status = "400"
        /\ ad_calls[1] = << >>

\* the successful add_knowledge calls so far, oldest first
SuccessfulAdds == ad_calls[2]

\* position of the most recent successful call for an id (0 when there is none)
LastAdd(doc_id) ==
    LET at == {k \in 1..Len(SuccessfulAdds) : SuccessfulAdds[k].id = doc_id}
    IN IF at = {} THEN 0 ELSE CHOOSE k \in at : \A j \in at : j <= k

\* C13: after any sequence of successful add_knowledge calls the index holds
\* one record for each id that was added and none for any other id, the record
\* carries the text and metadata of the most recent call for its id (so the
\* same call made twice leaves one record), and a record once stored is never
\* removed.
C13_OneRecordPerId ==
    /\ \A i \in DOMAIN store :
          /\ store[i].present <=> LastAdd(i) # 0
          /\ LastAdd(i) # 0 =>
                /\ store[i].text = SuccessfulAdds[LastAdd(i)].text
                /\ store[i].metadata = SuccessfulAdds[LastAdd(i)].metadata
                /\ store[i].added_date = LastAdd(i)
    /\ Cardinality({i \in DOMAIN store : store[i].present})
         = Cardinality({SuccessfulAdds[k].id : k \in 1..Len(SuccessfulAdds)})

\* the same (id, text, metadata) was added twice and one record is stored
C13_Witness ==
    /\ Len(SuccessfulAdds) = 2
    /\ SuccessfulAdds[1] = SuccessfulAdds[2]
    /\ Cardinality({i \in DOMAIN store : store[i].present}) = 1
    /\ store[SuccessfulAdds[1].id].added_date = 2

\* ------------------------------------------------------------------------
\* Properties of the initialisation (SpecInit)
\* ------------------------------------------------------------------------

\* C9: over all calls of init_pinecone the index is created at most once, the
\* model is loaded at most once and the handles are bound at most once.
C9_AtMostOneInitialization ==
    /\ index_creations <= 1
    /\ model_loads <= 1
    /\ index_bindings <= 1

\* ------------------------------------------------------------------------
\* Properties of extract_technical_info (SpecExtract)
\* ------------------------------------------------------------------------

\* the trimmed lines of the argument, the empty ones left out
TrimmedLines ==
    LET lines == SplitLines(ex_context)
        trimmed == [i \in 1..Len(lines) |-> Strip(lines[i])]
    IN SelectSeq(trimmed, LAMBDA l : l # << >>)

HasProcedureKeyword(l) ==
    \E kw \in {"paso", "procedimiento", "instrucción", "método"} : Contains(Lower(l), <<kw>>)

HasSpecificationKeyword(l) ==
    \E kw \in {"especificación", "tolerancia", "medida", "valor", "psi", "rpm", "voltios"} :
        Contains(Lower(l), <<kw>>)

HasWarningKeyword(l) ==
    \E kw \in {"advertencia", "precaución", "peligro", "importante", "nota"} :
        Contains(Lower(l), <<kw>>)

HasToolKeyword(l) ==
    \E kw \in {"herramienta", "equipo", "llave", "medidor"} : Contains(Lower(l), <<kw>>)

\* the keyword lists with a member in the line
KeywordLists(l) ==
    (IF HasProcedureKeyword(l) THEN {"procedures"} ELSE {})
    \cup (IF HasSpecificationKeyword(l) THEN {"specifications"} ELSE {})
    \cup (IF HasWarningKeyword(l) THEN {"warnings"} ELSE {})
    \cup (IF HasToolKeyword(l) THEN {"tools"} ELSE {})

\* C15: each of the four sequences is, in input order and original case, the
\* trimmed non-empty lines whose first matching keyword list (procedure,
\* specification, warning, tool, in that order) is its own; a line matching
\* no list is in none of them, so every line is in at most one sequence, and
\* a context of four lines, one for each list, yields one item in each.
C15_FirstMatchingCategory ==
    ex_pc = "return" =>
        /\ ex_info.procedures = SelectSeq(TrimmedLines, HasProcedureKeyword)
        /\ ex_info.specifications =
              SelectSeq(TrimmedLines,
                        LAMBDA l : ~HasProcedureKeyword(l) /\ HasSpecificationKeyword(l))
        /\ ex_info.warnings =
              SelectSeq(TrimmedLines,
                        LAMBDA l : /\ ~HasProcedureKeyword(l)
                                   /\ ~HasSpecificationKeyword(l)
                                   /\ HasWarningKeyword(l))
        /\ ex_info.tools =
              SelectSeq(TrimmedLines,
                        LAMBDA l : /\ ~HasProcedureKeyword(l)
                                   /\ ~HasSpecificationKeyword(l)
                                   /\ ~HasWarningKeyword(l)
                                   /\ HasToolKeyword(l))
        /\ Len(ex_info.procedures) + Len(ex_info.specifications)
             + Len(ex_info.warnings) + Len(ex_info.tools) <= Len(TrimmedLines)
        /\ ex_context = << >> => ex_info = EmptyTechnicalData
        /\ (/\ Len(TrimmedLines) = 4
            /\ \A c \in DOMAIN ex_info :
                  \E i \in 1..4 : KeywordLists(TrimmedLines[i]) = {c})
           => \A c \in DOMAIN ex_info : Len(ex_info[c]) = 1

\* a padded line with a procedure and a specification keyword went to the
\* procedures alone, trimmed, after a line with a tool, a warning and a
\* specification keyword went to the specifications, a line without keyword
\* was dropped, and a mixed-case line kept its case
C15_Witness ==
    /\ ex_pc = "return"
    /\ ex_context = <<"llave", " ", "nota", " ", "PSI", "\n",
                      " ", "paso", " ", "de", " ", "valor", " ", "\n",
                      "texto", "\n", "re", "Paso", " ", "1">>
    /\ ex_info.procedures = <<<<"paso", " ", "de", " ", "valor">>, <<"re", "Paso", " ", "1">>>>
    /\ ex_info.specifications = <<<<"llave", " ", "nota", " ", "PSI">>>>
    /\ ex_info.warnings = << >>
    /\ ex_info.tools = << >>

\* ------------------------------------------------------------------------
\* Properties of generate_response (SpecSynth)
\* ------------------------------------------------------------------------

\* the call returned one of the seven templates that interpolate the context
SynthAnsweredFromContext == sy_pc = "return" /\ sy_resp.template \in ContextTemplates

\* the first n items of a list, all of them when it has fewer
FirstItems(list, n) == [i \in 1..(IF Len(list) < n THEN Len(list) ELSE n) |-> list[i]]

\* the lines of the context that extract_technical_info classifies
ClassifiedLines ==
    LET lines == SplitLines(sy_context)
        trimmed == [i \in 1..Len(lines) |-> Strip(lines[i])]
    IN SelectSeq(trimmed, LAMBDA l : KeywordLists(l) # {})

ExtractionKeepsEveryLine ==
    Len(sy_info.procedures) + Len(sy_info.specifications) + Len(sy_info.warnings)
        + Len(sy_info.tools) = Len(ClassifiedLines)

\* C14, as claimed: each of the seven templates shows the first 3
\* specifications, the first 3 procedures and the first 2 warnings of the
\* extraction (a list is absent when its sequence is empty), and the
\* extraction keeps every classified line.
C14_SameLimitsInAllTemplates ==
    SynthAnsweredFromContext =>
        /\ sy_resp.specifications = FirstItems(sy_info.specifications, 3)
        /\ sy_resp.procedures = FirstItems(sy_info.procedures, 3)
        /\ sy_resp.warnings = FirstItems(sy_info.warnings, 2)
        /\ ExtractionKeepsEveryLine

\* how many specifications, procedures and warnings each template shows
DisplayLimits(template) ==
    CASE template = "motor" -> [specifications |-> 3, procedures |-> 3, warnings |-> 2]
      [] template \in {"brakes", "transmission", "general"} ->
             [specifications |-> 2, procedures |-> 3, warnings |-> 0]
      [] template \in {"oil", "electrical"} ->
             [specifications |-> 3, procedures |-> 2, warnings |-> 0]
      [] template = "tires" -> [specifications |-> 3, procedures |-> 0, warnings |-> 0]

\* C14, amended: only the engine template shows 3 specifications, 3
\* procedures and 2 warnings; the brakes, transmission and general templates
\* show 3 procedures and 2 specifications, the lubrication and electrical
\* templates 3 specifications and 2 procedures, the tires template 3
\* specifications, and none of these shows warnings.  What a template shows
\* of a list is its first items in extraction order, nothing when the list
\* is empty, and the extraction keeps every classified line.
C14_TemplateLimits ==
    SynthAnsweredFromContext =>
        LET limit == DisplayLimits(sy_resp.template)
        IN /\ sy_resp.specifications =
                 FirstItems(sy_info.specifications, limit.specifications)
           /\ sy_resp.procedures = FirstItems(sy_info.procedures, limit.procedures)
           /\ sy_resp.warnings = FirstItems(sy_info.warnings, limit.warnings)
           /\ ExtractionKeepsEveryLine

\* the brakes template cut 5 procedures to 3 and 4 specifications to 2 and
\* showed none of 3 warnings
C14_Witness ==
    /\ sy_pc = "return"
    /\ sy_resp.template = "brakes"
    /\ Len(sy_info.procedures) = 5 /\ Len(sy_resp.procedures) = 3
    /\ Len(sy_info.specifications) = 4 /\ Len(sy_resp.specifications) = 2
    /\ Len(sy_info.warnings) = 3 /\ sy_resp.warnings = << >>

\* the matches that pass the confidence filter, in the order of the argument
Survivors == SelectSeq(sy_matches, LAMBDA m : m.score > 70)

FirstThreeSurvivors == FirstItems(Survivors, 3)

\* the texts of the first three survivors that have one
ContributingTexts ==
    LET with_text == SelectSeq(FirstThreeSurvivors, LAMBDA m : m.metadata.kind = "text")
    IN [i \in 1..Len(with_text) |-> with_text[i].metadata.text]

LinesOf(text) == {SplitLines(text)[i] : i \in 1..Len(SplitLines(text))}

ShownItems ==
    {sy_resp.specifications[i] : i \in 1..Len(sy_resp.specifications)}
    \cup {sy_resp.procedures[i] : i \in 1..Len(sy_resp.procedures)}
    \cup {sy_resp.warnings[i] : i \in 1..Len(sy_resp.warnings)}

\* C16: when some match has score > 0.70, the context handed to the extractor
\* is the texts of the first three such matches, joined in their order; a
\* match with score <= 0.70 and a fourth or later survivor contribute
\* nothing to the context or to the response, wherever they stand in the
\* argument, and a survivor without text is passed over and the response is
\* still one of the context templates.
C16_ContextFromFirstThreeSurvivors ==
    (sy_pc = "return" /\ Survivors # << >>) =>
        /\ sy_context = JoinLines(ContributingTexts)
        /\ sy_resp.template \in ContextTemplates
        /\ \A item \in ShownItems :
              \E i \in 1..Len(ContributingTexts) : item \in LinesOf(ContributingTexts[i])
        /\ sy_resp = generate_mechanical_response(sy_query, JoinLines(ContributingTexts),
                                                  Survivors[1].score)

\* the first match had a text and score 0.70, three later ones passed the
\* filter, one of them without text, and the engine template was returned
C16_Witness ==
    /\ sy_pc = "return"
    /\ Len(sy_matches) = 4
    /\ sy_matches[1].score = 70 /\ sy_matches[1].metadata.kind = "text"
    /\ Len(Survivors) = 3
    /\ sy_matches[2].metadata.kind = "no_text"
    /\ sy_matches[3].metadata.kind = "text" /\ sy_matches[4].metadata.kind = "text"
    /\ sy_matches[1].metadata.text # sy_matches[3].metadata.text
    /\ sy_matches[4].metadata.text = sy_matches[3].metadata.text
    /\ sy_resp.template = "motor"
    /\ sy_resp.procedures # << >>

====
